---- MODULE Spec2Model ----
(***************************************************************************)
(* kslauncher (src/main.rs): the folder state of the launcher, its initial *)
(* scan, the filesystem watcher callback with its detached publish tasks,  *)
(* the bounded channel of the subscription, the update step that applies   *)
(* the drained messages and the dropped files, the view, the background    *)
(* task that holds the watcher, and the pixels of the icon conversion.     *)
(***************************************************************************)
EXTENDS Bags, FiniteSets, Integers, Sequences, TLC

VARIABLES
    process,        \* "start" before Launcher::new, "running", "aborted" after a panic
    folder,         \* flags.folder is Some(_)
    file_move_error, \* flags.file_move_error is Some(_)
    open_result,    \* what fs::read_dir(folder) answers at startup: "ok" or an io error
    listing,        \* the items the ReadDir iterator yields at startup, in order
    disk,           \* the paths present in the monitored tree
    folder_state,   \* Launcher::folder_state
    scanned,        \* how many items of the listing init_state has visited
    handles,        \* OS handles acquired by get_icon and not released
    tasks,          \* detached publish tasks able to run: a bag of remaining streams
    parked_queue,   \* publish tasks whose sender is parked, oldest first
    chan,           \* messages buffered in the mpsc channel, oldest first
    notified,       \* how many raw notifications handle_event has received
    last_message,   \* the message most recently handed to Launcher::update
    watcher,        \* the background task: "unstarted", "watching", "pending", "panicked"
    published,      \* the messages handle_event has handed to publish tasks, in order
    applied,        \* the drained messages Launcher::update has applied, in order
    dropped,        \* the FileDropped messages Launcher::update has handled, each
                    \* with whether its rename moved the file
    bitmap,         \* the colour bitmap of the icon being converted, as the OS gives it
    image           \* the image::Handle made from it

\* LauncherFlags and the folder as it is at startup: no step changes them
startup == <<folder, file_move_error, open_result, listing>>

\* the pixel data of icon_to_rgba_image
icon_vars == <<bitmap, image>>

vars == <<process, startup, disk, folder_state, scanned, handles, tasks,
          parked_queue, chan, notified, last_message, watcher, published, applied,
          dropped, icon_vars>>

----------------------------------------------------------------------------
(* Bounds of the model *)

\* children yielded by the startup listing
MaxChildren == 3
\* raw notifications delivered to handle_event in one run
MaxNotifications == 1
\* paths carried by one raw notification
MaxPaths == 2
\* raw notifications of one burst (the runs that fill the channel)
MaxBurst == 18
\* changes made to the monitored tree in one run
MaxFsOps == 2
\* files dropped on the window in one run
MaxDrops == 2

\* the largest width and height of an icon's bitmap, in pixels
MaxSide == 2

\* the cells of one row of the grid
GRID_WIDTH == 6

\* subscription::channel(0, 16, ..): the buffer of the mpsc channel
ChannelBuffer == 16

----------------------------------------------------------------------------
(* Values *)

\* immediate children of the monitored folder, and one path deeper in the tree
TopPaths == {"a.txt", "sub"}
DeepPaths == {"sub/c.png"}
Paths == TopPaths \cup DeepPaths

ParentOf(p) == IF p = "sub/c.png" THEN "sub" ELSE "folder"

IoErrors == {"AccessDenied", "NotFound"}

\* io::Result<(PathBuf, image::Handle)>
Item(p) == [ok |-> TRUE, path |-> p]
Error(e) == [ok |-> FALSE, err |-> e]

\* io::Result<DirEntry>, an item of the ReadDir iterator
DirEntryOk(p) == [ok |-> TRUE, path |-> p]
DirEntryErr(e) == [ok |-> FALSE, err |-> e]

\* enum Message (the variants the watcher publishes)
NewEntry(p) == [type |-> "NewEntry", path |-> p]
RemoveEntry(p) == [type |-> "RemoveEntry", path |-> p]
EntryModified == [type |-> "EntryModified"]
FileDropped(p) == [type |-> "FileDropped", path |-> p]
NoMessage == [type |-> "None"]

SeqsUpTo(S, n) == UNION {[1..k -> S] : k \in 0..n}

Range(s) == {s[i] : i \in DOMAIN s}

----------------------------------------------------------------------------
(* get_icon and icon_to_rgba_image: the OS calls in program order. Each call *)
(* either succeeds, acquiring and releasing the handles listed, or fails,  *)
(* and every failure is an unwrap, an assert or unimplemented!(): a panic. *)

IconCalls == <<
    [call |-> "CoInitializeEx",  acquire |-> {},                     release |-> {}],
    \* SHGetFileInfoW is called before SHGetImageList, but its answer (0) is
    \* only acted on after SHGetImageList(..).unwrap()
    [call |-> "SHGetImageList",  acquire |-> {},                     release |-> {}],
    [call |-> "SHGetFileInfoW",  acquire |-> {},                     release |-> {}],
    [call |-> "GetIcon",         acquire |-> {"icon"},               release |-> {}],
    [call |-> "GetIconInfo",     acquire |-> {"hbmMask", "hbmColor"}, release |-> {}],
    [call |-> "DeleteObjectMask", acquire |-> {},                    release |-> {"hbmMask"}],
    [call |-> "GetObjectW",      acquire |-> {},                     release |-> {}],
    [call |-> "BufferSize",      acquire |-> {},                     release |-> {}],
    [call |-> "GetDC",           acquire |-> {"dc"},                 release |-> {}],
    [call |-> "GetDIBits",       acquire |-> {},                     release |-> {}],
    [call |-> "ReleaseDC",       acquire |-> {},                     release |-> {"dc"}],
    [call |-> "DeleteObjectColor", acquire |-> {},                   release |-> {"hbmColor"}],
    [call |-> "DestroyIcon",     acquire |-> {},                     release |-> {"icon"}] >>

\* what the OS answers to one resolution: 0 when every call succeeds,
\* else the index of the first call that fails
IconOutcomes == 0..Len(IconCalls)

RECURSIVE HeldAfter(_, _, _)
\* the handles held after calls i..Len(IconCalls), from held, when call fail fails
HeldAfter(i, fail, held) ==
    IF i > Len(IconCalls) \/ i = fail THEN held
    ELSE HeldAfter(i + 1, fail, (held \cup IconCalls[i].acquire) \ IconCalls[i].release)

\* get_icon(path) under OS outcome fail: whether it panicked, the handles it
\* leaves held
get_icon(fail) == [panic |-> fail # 0, held |-> HeldAfter(1, fail, {})]

----------------------------------------------------------------------------
(* icon_to_rgba_image: the pixels. The colour bitmap is read top-down as    *)
(* 32-bit BI_RGB, that is one B, G, R, A quadruple of bytes per pixel, and  *)
(* the bytes are handed to image::Handle::from_pixels after the loop over   *)
(* the 4-byte chunks.                                                       *)

\* the pixels an OS bitmap is made of here, as B, G, R, A
Palette == { <<0, 64, 128, 255>>, <<255, 0, 0, 255>>, <<7, 7, 7, 0>> }

\* no icon is being converted
NoBitmap == [width |-> 0, height |-> 0, bits |-> <<>>]
NoImage == [made |-> FALSE]

RECURSIVE Flatten(_)
Flatten(pixels) ==
    IF pixels = <<>> THEN <<>> ELSE Head(pixels) \o Flatten(Tail(pixels))

\* the colour bitmap of w by h pixels with the bytes GetDIBits writes for it:
\* rows top to bottom, pixels left to right
Bitmap(w, h, pixels) == [width |-> w, height |-> h, bits |-> Flatten(pixels)]

\* the loop with the red and the green byte exchanged instead
RECURSIVE SwapRedGreen(_)
SwapRedGreen(buf) ==
    IF Len(buf) < 4 THEN <<>>
    ELSE <<buf[1], buf[3], buf[2], buf[4]>> \o SwapRedGreen(SubSeq(buf, 5, Len(buf)))

\* for chunk in buf.chunks_exact_mut(4) { let [b, _, r, _] = chunk; swap(b, r) }
RECURSIVE SwapChunks(_)
SwapChunks(buf) ==
    IF Len(buf) < 4 THEN buf
    ELSE <<buf[3], buf[2], buf[1], buf[4]>> \o SwapChunks(SubSeq(buf, 5, Len(buf)))

\* the buffer after GetDIBits and set_len: buf_size = w * h * 4 bytes, which
\* are the first buf_size bytes the OS has for the bitmap
GetDIBits(bm) == SubSeq(bm.bits, 1, bm.width * bm.height * 4)

icon_to_rgba_image(bm) ==
    [made |-> TRUE, width |-> bm.width, height |-> bm.height,
     pixels |-> SwapChunks(GetDIBits(bm))]

\* one conversion, every OS call of it succeeding
IconToRgbaImage ==
    /\ bitmap # NoBitmap
    /\ image = NoImage
    /\ image' = icon_to_rgba_image(bitmap)
    /\ UNCHANGED <<process, startup, dropped, bitmap, disk, folder_state, scanned, handles,
                   tasks, parked_queue, chan, notified, last_message, watcher,
                   published, applied>>

----------------------------------------------------------------------------
(* init_state *)

RECURSIVE ScanFrom(_, _, _)
\* read_dir.map(|r| r.map(|e| (e.path(), get_icon(&e.path())))).collect(), from
\* item i on; os[i] is the OS outcome of the resolution of item i
ScanFrom(i, os, acc) ==
    IF i > Len(listing) THEN [state |-> acc, scanned |-> Len(listing),
                              panic |-> FALSE, held |-> {}]
    ELSE IF listing[i].ok
         THEN LET icon == get_icon(os[i]) IN
              IF icon.panic
              THEN [state |-> acc, scanned |-> i, panic |-> TRUE, held |-> icon.held]
              ELSE ScanFrom(i + 1, os, Append(acc, Item(listing[i].path)))
         ELSE ScanFrom(i + 1, os, Append(acc, Error(listing[i].err)))

\* init_state with the read_dir failure swallowed (unwrap_or_default)
init_state_swallowing_open_error(os) ==
    IF folder /\ open_result = "ok"
    THEN ScanFrom(1, os, <<>>)
    ELSE [state |-> <<>>, scanned |-> 0, panic |-> FALSE, held |-> {}]

init_state(os) ==
    IF folder
    THEN IF open_result = "ok"
         THEN ScanFrom(1, os, <<>>)
         ELSE [state |-> <<Error(open_result)>>, scanned |-> 0,
               panic |-> FALSE, held |-> {}]
    ELSE [state |-> <<>>, scanned |-> 0, panic |-> FALSE, held |-> {}]

\* the OS outcomes of one scan: at most one resolution fails, since the first
\* failure ends the process
ScanOutcomes ==
    {[i \in 1..Len(listing) |-> IF i = at THEN fail ELSE 0] :
        at \in 1..Len(listing), fail \in IconOutcomes}
    \cup {[i \in 1..Len(listing) |-> 0]}

\* Launcher::new
New ==
    /\ process = "start"
    /\ \E os \in ScanOutcomes :
         LET r == init_state(os) IN
         /\ folder_state' = r.state
         /\ scanned' = r.scanned
         /\ handles' = r.held
         /\ process' = IF r.panic THEN "aborted" ELSE "running"
    /\ UNCHANGED <<startup, dropped, icon_vars, disk, tasks, parked_queue, chan,
                   notified, last_message, watcher, published, applied>>

----------------------------------------------------------------------------
(* background: the future of subscription::channel *)

\* what notify::recommended_watcher(..) and watcher.watch(..) answer
WatchOutcomes == {"ok", "error"}

\* background(sender, folder_to_monitor) under OS outcome os: with a folder the
\* watcher is made and registered, both unwrapped, and the future pends for
\* ever holding it; without one it pends at once
background(os) ==
    IF folder
    THEN IF os = "ok" THEN "watching" ELSE "panicked"
    ELSE "pending"

\* the runtime starts the subscription of the running application. A panic of
\* the future ends the task; it ends the process too in a build with
\* panic = "abort"
Background ==
    /\ process = "running"
    /\ watcher = "unstarted"
    /\ \E os \in WatchOutcomes :
         /\ watcher' = background(os)
         /\ process' \in IF watcher' = "panicked" THEN {"running", "aborted"}
                         ELSE {"running"}
    /\ UNCHANGED <<startup, dropped, icon_vars, disk, folder_state, scanned, handles, tasks,
                   parked_queue, chan, notified, last_message, published, applied>>

----------------------------------------------------------------------------
(* FolderEventHandler::handle_event *)

\* notify::EventKind, with the ModifyKind and RenameMode the match looks at
EventKinds == {<<"Any">>, <<"Access">>, <<"Create">>, <<"Remove">>, <<"Other">>,
               <<"Modify", "Any">>, <<"Modify", "Data">>, <<"Modify", "Metadata">>,
               <<"Modify", "Other">>,
               <<"Modify", "Name", "Any">>, <<"Modify", "Name", "To">>,
               <<"Modify", "Name", "From">>, <<"Modify", "Name", "Both">>,
               <<"Modify", "Name", "Other">>}

\* notify::Result<notify::Event>
RawOk(kind, paths) == [ok |-> TRUE, kind |-> kind, paths |-> paths]
RawErr == [ok |-> FALSE]

\* event.paths.into_iter().map(Message::NewEntry)
NewEntries(paths) == [i \in 1..Len(paths) |-> NewEntry(paths[i])]

\* event.paths.into_iter().map(Message::RemoveEntry)
RemoveEntries(paths) == [i \in 1..Len(paths) |-> RemoveEntry(paths[i])]

\* handle_event matching Modify(ModifyKind::Name(_)) in its first arm, whatever
\* the rename mode
handle_event_any_rename(event) ==
    IF event.ok
    THEN IF event.kind[1] = "Create"
            \/ (Len(event.kind) = 3 /\ event.kind[2] = "Name")
         THEN <<NewEntries(event.paths)>>
         ELSE IF event.kind[1] = "Remove"
         THEN <<RemoveEntries(event.paths)>>
         ELSE IF event.kind[1] = "Modify"
         THEN <<(<<EntryModified>>)>>
         ELSE <<>>
    ELSE <<>>

\* the streams of the publish tasks handle_event spawns for one raw
\* notification: none, or the one stream its detached task sends
handle_event(event) ==
    IF event.ok
    THEN IF event.kind[1] = "Create" \/ event.kind = <<"Modify", "Name", "To">>
         THEN <<NewEntries(event.paths)>>
         ELSE IF event.kind[1] = "Remove" \/ event.kind = <<"Modify", "Name", "From">>
         THEN <<RemoveEntries(event.paths)>>
         ELSE IF event.kind[1] = "Modify"
         THEN <<(<<EntryModified>>)>>
         ELSE <<>>
    ELSE <<>>

\* the messages the streams carry, in the order handle_event made them
Published(streams) == IF streams = <<>> THEN <<>> ELSE streams[1]

\* smol::spawn(..).detach() for every stream of streams
Spawn(streams) == tasks (+) SetToBag(Range(streams))

\* handle_event sending on the channel itself, returning when there is room
Deliver_awaiting_send(event) ==
    /\ process = "running"
    /\ watcher = "watching"
    /\ Len(chan) < ChannelBuffer
    /\ tasks' = Spawn(handle_event(event))
    /\ published' = published \o Published(handle_event(event))
    /\ notified' = notified + 1

\* the watcher thread calls handle_event(event)
Deliver(event) ==
    /\ process = "running"
    /\ watcher = "watching"
    /\ tasks' = Spawn(handle_event(event))
    /\ published' = published \o Published(handle_event(event))
    /\ notified' = notified + 1

\* the paths of one raw notification: children of the folder, each at most
\* once
PathLists ==
    {ps \in SeqsUpTo(TopPaths, MaxPaths) :
        \A i, j \in DOMAIN ps : ps[i] = ps[j] => i = j}

\* the raw notifications of the runs of Spec
RawNotifications ==
    {RawOk(k, ps) : k \in EventKinds, ps \in PathLists} \cup {RawErr}

HandleEvent ==
    /\ notified < MaxNotifications
    /\ \E event \in RawNotifications : Deliver(event)
    /\ UNCHANGED <<process, startup, dropped, icon_vars, disk, folder_state, scanned,
                   handles, parked_queue, chan, last_message, watcher, applied>>

\* a burst of content changes: each raw notification is Modify(Data)
BurstNotifications == {RawOk(<<"Modify", "Data">>, <<p>>) : p \in {"a.txt"}}

HandleEventBurst ==
    /\ notified < MaxBurst
    /\ \E event \in BurstNotifications : Deliver(event)
    /\ UNCHANGED <<process, startup, dropped, icon_vars, disk, folder_state, scanned,
                   handles, parked_queue, chan, last_message, watcher, applied>>

\* a creation overtaken by a removal: ChannelBuffer content changes fill the
\* channel, then one notification reports the creation of a.txt and sub, and
\* the next one the removal of sub
RacePath == "sub"

RaceScript ==
    [i \in 1..ChannelBuffer |-> RawOk(<<"Modify", "Data">>, <<"a.txt">>)]
    \o << RawOk(<<"Create">>, <<"a.txt", RacePath>>),
          RawOk(<<"Remove">>, <<RacePath>>) >>

\* the notifications of the script, one after the other, each arriving when
\* the executor has polled the tasks spawned before it
HandleEventRace ==
    /\ notified < Len(RaceScript)
    /\ \A s \in BagToSet(tasks) : s = <<>>
    /\ Deliver(RaceScript[notified + 1])
    /\ UNCHANGED <<process, startup, dropped, icon_vars, disk, folder_state, scanned,
                   handles, parked_queue, chan, last_message, watcher, applied>>

----------------------------------------------------------------------------
(* The monitored tree. watcher.watch(&folder, RecursiveMode::Recursive): every *)
(* change below the folder, at any depth, is reported to handle_event, one  *)
(* raw notification with one path per change.                               *)

\* a file or directory appears at p
FsCreate ==
    /\ notified < MaxFsOps
    /\ \E p \in Paths \ disk :
         /\ ParentOf(p) \in disk \cup {"folder"}
         /\ disk' = disk \cup {p}
         /\ Deliver(RawOk(<<"Create">>, <<p>>))
    /\ UNCHANGED <<process, startup, dropped, icon_vars, folder_state, scanned,
                   handles, parked_queue, chan, last_message, watcher, applied>>

\* the file or empty directory at p is deleted
FsRemove ==
    /\ notified < MaxFsOps
    /\ \E p \in disk :
         /\ \A q \in disk : ParentOf(q) # p
         /\ disk' = disk \ {p}
         /\ Deliver(RawOk(<<"Remove">>, <<p>>))
    /\ UNCHANGED <<process, startup, dropped, icon_vars, folder_state, scanned,
                   handles, parked_queue, chan, last_message, watcher, applied>>

\* the content of p is written
FsWrite ==
    /\ notified < MaxFsOps
    /\ \E p \in disk : Deliver(RawOk(<<"Modify", "Any">>, <<p>>))
    /\ UNCHANGED <<process, startup, dropped, icon_vars, disk, folder_state, scanned,
                   handles, parked_queue, chan, last_message, watcher, applied>>

----------------------------------------------------------------------------
(* The publish tasks and the mpsc channel (futures::channel::mpsc, bounded):  *)
(* every task sends through its own clone of the sender. A send by a sender *)
(* that is not parked always enqueues; the sender parks itself when the     *)
(* number of buffered messages then exceeds the buffer, and a parked sender *)
(* is pending in poll_ready and poll_flush until the receiver unparks it.   *)

\* a publish task that also appends the entry of the NewEntry it sends
TaskSend_writing_state ==
    /\ process = "running"
    /\ \E s \in BagToSet(tasks) :
         /\ s # <<>>
         /\ chan' = Append(chan, Head(s))
         /\ folder_state' = IF Head(s).type = "NewEntry"
                            THEN Append(folder_state, Item(Head(s).path))
                            ELSE folder_state
         /\ LET park == Len(chan') > ChannelBuffer
                rest == Tail(s)
            IN  /\ tasks' = IF park \/ rest = <<>>
                            THEN tasks (-) SetToBag({s})
                            ELSE (tasks (-) SetToBag({s})) (+) SetToBag({rest})
                /\ parked_queue' = IF park THEN Append(parked_queue, rest)
                                   ELSE parked_queue
    /\ UNCHANGED <<process, startup, dropped, icon_vars, disk, scanned,
                   handles, notified, last_message, watcher, published, applied>>

\* one item of sender.send_all(&mut s) / sender.send(..) by a task that can run
TaskSend ==
    /\ process = "running"
    /\ \E s \in BagToSet(tasks) :
         /\ s # <<>>
         /\ chan' = Append(chan, Head(s))
         /\ LET park == Len(chan') > ChannelBuffer
                rest == Tail(s)
            IN  /\ tasks' = IF park \/ rest = <<>>
                            THEN tasks (-) SetToBag({s})
                            ELSE (tasks (-) SetToBag({s})) (+) SetToBag({rest})
                /\ parked_queue' = IF park THEN Append(parked_queue, rest)
                                   ELSE parked_queue
    /\ UNCHANGED <<process, startup, dropped, icon_vars, disk, folder_state, scanned,
                   handles, notified, last_message, watcher, published, applied>>

\* the flush of a task with nothing left to send completes and the task ends
TaskFinish ==
    /\ process = "running"
    /\ BagIn(<<>>, tasks)
    /\ tasks' = tasks (-) SetToBag({<<>>})
    /\ UNCHANGED <<process, startup, dropped, icon_vars, disk, folder_state, scanned,
                   handles, parked_queue, chan, notified, last_message, watcher,
                   published, applied>>

\* Receiver::next_message: take the oldest message and unpark one sender
Receive(message) ==
    /\ process = "running"
    /\ chan # <<>>
    /\ message = Head(chan)
    /\ chan' = Tail(chan)
    /\ IF parked_queue # <<>>
       THEN /\ tasks' = tasks (+) SetToBag({Head(parked_queue)})
            /\ parked_queue' = Tail(parked_queue)
       ELSE UNCHANGED <<tasks, parked_queue>>
    /\ last_message' = message

----------------------------------------------------------------------------
(* Launcher::update *)

\* the new entry put in front of the others
push_front(state, file_path) == <<Item(file_path)>> \o state

\* self.folder_state.push(Ok((file_path, icon)))
push(state, file_path) == Append(state, Item(file_path))

\* retain keeping every entry
retain_everything(state, file_path) == state

\* retain with the Err(_) arm answering false
retain_dropping_errors(state, file_path) ==
    SelectSeq(state, LAMBDA e : IF e.ok THEN e.path # file_path ELSE FALSE)

\* self.folder_state.retain(|e| match e { Ok((path, _)) => path != &file_path,
\*                                        Err(_) => true })
retain(state, file_path) ==
    SelectSeq(state, LAMBDA e : IF e.ok THEN e.path # file_path ELSE TRUE)

\* EntryModified dropping the entries that carry no icon
entry_modified_refresh(state) == SelectSeq(state, LAMBDA e : e.ok)

\* Message::EntryModified => {}
entry_modified(state) == state

\* update(&mut self, message) for the messages of the watcher, get_icon
\* returning
update(state, message) ==
    IF message.type = "NewEntry" THEN push(state, message.path)
    ELSE IF message.type = "RemoveEntry" THEN retain(state, message.path)
    ELSE entry_modified(state)

\* update called with the messages one after the other
RECURSIVE ApplyAll(_, _)
ApplyAll(state, messages) ==
    IF messages = <<>> THEN state
    ELSE ApplyAll(update(state, Head(messages)), Tail(messages))

\* Message::NewEntry(file_path)
UpdateNewEntry ==
    /\ \E p \in Paths : Receive(NewEntry(p))
    /\ \E fail \in IconOutcomes :
         LET icon == get_icon(fail) IN
         IF icon.panic
         THEN /\ process' = "aborted"
              /\ handles' = handles \cup icon.held
              /\ UNCHANGED <<folder_state, applied>>
         ELSE /\ folder_state' = push(folder_state, Head(chan).path)
              /\ applied' = Append(applied, Head(chan))
              /\ UNCHANGED <<process, handles>>
    /\ UNCHANGED <<startup, dropped, icon_vars, disk, scanned, notified, watcher, published>>

\* Message::RemoveEntry(file_path)
UpdateRemoveEntry ==
    /\ \E p \in Paths : Receive(RemoveEntry(p))
    /\ folder_state' = retain(folder_state, Head(chan).path)
    /\ applied' = Append(applied, Head(chan))
    /\ UNCHANGED <<process, startup, dropped, icon_vars, disk, scanned, handles,
                   notified, watcher, published>>

\* Message::EntryModified
UpdateEntryModified ==
    /\ Receive(EntryModified)
    /\ folder_state' = entry_modified(folder_state)
    /\ applied' = Append(applied, Head(chan))
    /\ UNCHANGED <<process, startup, dropped, icon_vars, disk, scanned, handles,
                   notified, watcher, published>>

\* the paths of the files dropped on the window: files named like a child
\* of the folder, and a path that ends in "..", which has no file name
DroppedPaths == TopPaths \cup {".."}

\* path.file_name(), an Option as a sequence of none or one
file_name(path) == IF path = ".." THEN <<>> ELSE <<path>>

\* what fs::rename answers
RenameOutcomes == {"ok", "error"}

\* FileDropped adding the entry itself
file_dropped_adding_entry(state, path) ==
    IF file_name(path) = <<>> THEN state ELSE Append(state, Item(path))

\* what Message::FileDropped(path) makes of the folder state: the arm holds
\* the rename only
file_dropped(state, path) == state

\* Message::FileDropped(path), from the drag and drop subscription: with a
\* folder and a file name the file is renamed into the folder and the result
\* of the rename is discarded. A rename that succeeds puts the file into the
\* watched folder, which a registered watcher reports as a creation
UpdateFileDropped ==
    /\ process = "running"
    /\ Len(dropped) < MaxDrops
    /\ \E path \in DroppedPaths, os \in RenameOutcomes :
         LET renamed == folder /\ file_name(path) # <<>> /\ os = "ok" IN
         /\ last_message' = FileDropped(path)
         /\ folder_state' = file_dropped(folder_state, path)
         /\ dropped' = Append(dropped, [path |-> path, renamed |-> renamed])
         /\ IF renamed
            THEN /\ disk' = disk \cup {file_name(path)[1]}
                 /\ IF watcher = "watching"
                    THEN /\ notified < MaxFsOps
                         /\ Deliver(RawOk(<<"Create">>, <<file_name(path)[1]>>))
                    ELSE UNCHANGED <<tasks, published, notified>>
            ELSE UNCHANGED <<disk, tasks, published, notified>>
    /\ UNCHANGED <<process, startup, icon_vars, scanned, handles, parked_queue,
                   chan, watcher, applied>>

----------------------------------------------------------------------------
(* Launcher::view *)

\* the texts and the button of the view
EmptyFolderText == [widget |-> "Text", text |-> "This folder is empty."]
MoveFailureText == [widget |-> "Text", text |-> "Failed to add file to launcher folder"]
OpenFolderButton == [widget |-> "Button", text |-> "Open Folder in Explorer"]

\* folder_state.chunks(GRID_WIDTH)
RECURSIVE chunks(_, _)
chunks(state, n) ==
    IF Len(state) <= n THEN (IF state = <<>> THEN <<>> ELSE <<state>>)
    ELSE <<SubSeq(state, 1, n)>> \o chunks(SubSeq(state, n + 1, Len(state)), n)

\* one row of the grid: a cell per entry, then GRID_WIDTH - row.len() spaces
GridRow(row) ==
    [widget |-> "Row", cells |-> row, spaces |-> GRID_WIDTH - Len(row)]

Grid(state) ==
    [widget |-> "Column",
     children |-> [i \in 1..Len(chunks(state, GRID_WIDTH)) |->
                      GridRow(chunks(state, GRID_WIDTH)[i])]]

\* view(&self): the empty state returns its text before flags.file_move_error
\* is looked at; otherwise the content is the move failure or the grid, under
\* the button that opens the folder
view(state, move_error) ==
    IF state = <<>>
    THEN EmptyFolderText
    ELSE [widget |-> "Column",
          children |-> << OpenFolderButton,
                          IF move_error THEN MoveFailureText ELSE Grid(state) >>]

----------------------------------------------------------------------------
(* The process from its start *)

\* the listings a directory can yield: its readable children once each, in any
\* order, with unreadable entries anywhere
Listings ==
    {l \in SeqsUpTo({DirEntryOk(p) : p \in TopPaths} \cup {DirEntryErr("AccessDenied")},
                    MaxChildren) :
        \A i, j \in DOMAIN l : (i # j /\ l[i].ok /\ l[j].ok) => l[i].path # l[j].path}

ListedPaths(l) == {l[i].path : i \in {j \in DOMAIN l : l[j].ok}}

InitProgram ==
    /\ process = "start"
    /\ folder_state = <<>>
    /\ scanned = 0
    /\ handles = {}
    /\ tasks = EmptyBag
    /\ parked_queue = <<>>
    /\ chan = <<>>
    /\ notified = 0
    /\ last_message = NoMessage
    /\ watcher = "unstarted"
    /\ published = <<>>
    /\ applied = <<>>
    /\ dropped = <<>>

NoIcon ==
    /\ bitmap = NoBitmap
    /\ image = NoImage

\* the directories the runs of Spec start from: unreadable, empty, one with an
\* unreadable entry before a file, one with two readable children
StartupDirs ==
    { [open |-> "AccessDenied", listing |-> <<DirEntryOk("a.txt")>>],
      [open |-> "ok", listing |-> <<DirEntryErr("AccessDenied"), DirEntryOk("a.txt")>>],
      [open |-> "ok", listing |-> <<DirEntryOk("a.txt"), DirEntryOk("sub")>>] }

Init ==
    /\ InitProgram
    /\ NoIcon
    /\ file_move_error = FALSE
    /\ folder \in BOOLEAN
    /\ IF folder
       THEN \E d \in StartupDirs : open_result = d.open /\ listing = d.listing
       ELSE open_result = "NotFound" /\ listing = <<>>
    /\ disk = ListedPaths(listing)

\* every startup directory within the bounds
InitScan ==
    /\ InitProgram
    /\ NoIcon
    /\ folder \in BOOLEAN
    /\ file_move_error \in IF folder THEN BOOLEAN ELSE {FALSE}
    /\ open_result \in {"ok"} \cup IoErrors
    /\ listing \in Listings
    /\ disk = ListedPaths(listing)

Next ==
    \/ New
    \/ Background
    \/ HandleEvent
    \/ TaskSend
    \/ TaskFinish
    \/ UpdateNewEntry
    \/ UpdateRemoveEntry
    \/ UpdateEntryModified

Spec == Init /\ [][Next]_vars

\* a burst of notifications over an empty folder
InitBurst ==
    /\ InitProgram
    /\ NoIcon
    /\ file_move_error = FALSE
    /\ folder = TRUE
    /\ open_result = "ok"
    /\ listing = <<>>
    /\ disk = {}

NextBurst ==
    \/ New
    \/ Background
    \/ HandleEventBurst
    \/ TaskSend
    \/ TaskFinish
    \/ UpdateEntryModified

SpecBurst == InitBurst /\ [][NextBurst]_vars

\* the trees a run can start from, listed in any order, every child readable
Trees == {t \in SUBSET Paths : \A p \in t : ParentOf(p) \in t \cup {"folder"}}

InitSync ==
    /\ InitProgram
    /\ NoIcon
    /\ file_move_error = FALSE
    /\ folder \in BOOLEAN
    /\ IF folder
       THEN /\ open_result = "ok"
            /\ disk \in Trees
            /\ listing \in {l \in Listings : (\A i \in DOMAIN l : l[i].ok)
                                             /\ ListedPaths(l) = disk \cap TopPaths}
       ELSE /\ open_result = "NotFound"
            /\ disk = {}
            /\ listing = <<>>

NextSync ==
    \/ New
    \/ Background
    \/ FsCreate
    \/ FsRemove
    \/ FsWrite
    \/ TaskSend
    \/ UpdateNewEntry
    \/ UpdateRemoveEntry
    \/ UpdateEntryModified

SpecSync == InitSync /\ [][NextSync]_vars

\* files dropped on the window, the folder changing through the drops only
NextDrop ==
    \/ New
    \/ Background
    \/ UpdateFileDropped
    \/ TaskSend
    \/ UpdateNewEntry

SpecDrop == InitSync /\ [][NextDrop]_vars

\* the script of the overtaken creation, on an empty folder
InitRace ==
    /\ InitProgram
    /\ NoIcon
    /\ file_move_error = FALSE
    /\ folder = TRUE
    /\ open_result = "ok"
    /\ listing = <<>>
    /\ disk = {}

NextRace ==
    \/ New
    \/ Background
    \/ HandleEventRace
    \/ TaskSend
    \/ TaskFinish
    \/ UpdateNewEntry
    \/ UpdateRemoveEntry
    \/ UpdateEntryModified

SpecRace == InitRace /\ [][NextRace]_vars

\* one icon conversion, from every bitmap of MaxSide by MaxSide pixels at most
InitIcon ==
    /\ InitProgram
    /\ folder = TRUE
    /\ file_move_error = FALSE
    /\ open_result = "ok"
    /\ listing = <<>>
    /\ disk = {}
    /\ \E w \in 1..MaxSide, h \in 1..MaxSide :
         \E pixels \in [1..(w * h) -> Palette] : bitmap = Bitmap(w, h, pixels)
    /\ image = NoImage

NextIcon == IconToRgbaImage

SpecIcon == InitIcon /\ [][NextIcon]_vars

NextScan == New

SpecScan == InitScan /\ [][NextScan]_vars

----------------------------------------------------------------------------
(* Properties *)

\* Launcher::update is handed message, the oldest of the channel
Drains(message) ==
    /\ chan # <<>>
    /\ Head(chan) = message
    /\ chan' = Tail(chan)
    /\ last_message' = message

IsItemOf(e, p) == e.ok /\ e.path = p

ItemPaths(state) == {state[i].path : i \in {j \in DOMAIN state : state[j].ok}}

\* how many Items with path p state holds before position i
ItemsBefore(state, p, i) ==
    Cardinality({j \in DOMAIN state : j < i /\ IsItemOf(state[j], p)})

\* C1: applying Created(p) to any FolderState adds exactly one entry, an Item
\* with path p, at the end, and leaves every earlier entry in place, also when
\* an Item with path p is already there.
C1_CreatedAppendsOneItem ==
    [][\A p \in Paths :
          Drains(NewEntry(p)) =>
              /\ Len(folder_state') = Len(folder_state) + 1
              /\ folder_state'[Len(folder_state')] = Item(p)
              /\ SubSeq(folder_state', 1, Len(folder_state)) = folder_state]_vars

C3_ModifiedChangesNothing ==
    [][Drains(EntryModified) => folder_state' = folder_state]_vars

\* a Modified event has been applied to a state that holds entries
C3_Witness ==
    /\ last_message = EntryModified
    /\ folder_state # <<>>
    /\ \E i \in DOMAIN folder_state : ~folder_state[i].ok

\* the events the classification rules give for one raw notification
ExpectedEvents(event) ==
    IF ~event.ok THEN <<>>
    ELSE IF event.kind \in {<<"Create">>, <<"Modify", "Name", "To">>}
    THEN [i \in 1..Len(event.paths) |-> NewEntry(event.paths[i])]
    ELSE IF event.kind \in {<<"Remove">>, <<"Modify", "Name", "From">>}
    THEN [i \in 1..Len(event.paths) |-> RemoveEntry(event.paths[i])]
    ELSE IF event.kind \in {<<"Modify", "Any">>, <<"Modify", "Data">>,
                            <<"Modify", "Metadata">>, <<"Modify", "Other">>,
                            <<"Modify", "Name", "Any">>, <<"Modify", "Name", "Both">>,
                            <<"Modify", "Name", "Other">>}
    THEN <<EntryModified>>
    ELSE <<>>

\* C4: a raw notification of kind Create or rename-To is published as one
\* Created per path in path order, Remove or rename-From as one Removed per
\* path, any other Modify as exactly one Modified, and every other kind and
\* every error as no event.
C4_ClassificationExact ==
    [][notified' # notified =>
          \A event \in RawNotifications :
              Deliver(event) =>
                  LET spawned == tasks' (-) tasks IN
                  IF ExpectedEvents(event) = <<>>
                  THEN BagToSet(spawned) \subseteq {<<>>}
                  ELSE spawned = SetToBag({ExpectedEvents(event)})]_vars

\* a notification with two different paths has been classified as two Created
C4_Witness ==
    /\ notified = 1
    /\ BagIn(<<NewEntry("sub"), NewEntry("a.txt")>>, tasks)

\* C5: a listing of N readable and M unreadable children is scanned into N + M
\* entries, the i-th entry for the i-th child: an Item for a readable child, an
\* Error for an unreadable one.
C5_ScanKeepsListing ==
    (process # "start" /\ folder /\ open_result = "ok") =>
        /\ Len(folder_state) = Len(listing)
        /\ \A i \in DOMAIN listing :
               folder_state[i] = IF listing[i].ok THEN Item(listing[i].path)
                                 ELSE Error(listing[i].err)

\* C6: when the folder cannot be opened or listed the state is exactly one
\* Error entry carrying that failure, and no child is scanned.
C6_OpenFailureIsSingleError ==
    (process # "start" /\ folder /\ open_result # "ok") =>
        /\ process = "running"
        /\ folder_state = <<Error(open_result)>>
        /\ scanned = 0

\* the scan of a folder that holds children and could not be opened
C6_Witness ==
    /\ process = "running"
    /\ folder
    /\ open_result = "AccessDenied"
    /\ Len(listing) = MaxChildren
    /\ \E i \in DOMAIN listing : listing[i].ok

\* C7: an icon-resolution failure for one child of the scan does not abort the
\* process: every child of the listing is still visited and has its entry.
C7_IconFailureRecoverable ==
    (process # "start" /\ folder /\ open_result = "ok") =>
        /\ process = "running"
        /\ scanned = Len(listing)
        /\ Len(folder_state) = Len(listing)

\* nothing is in flight: no publish task is left and the channel is drained
Quiescent ==
    /\ process = "running"
    /\ tasks = EmptyBag
    /\ parked_queue = <<>>
    /\ chan = <<>>

\* C8: once no change is in flight, the paths of the Item entries are the
\* children present in the monitored directory.
C8_StateMatchesDirectory ==
    Quiescent => ItemPaths(folder_state) = disk \cap TopPaths

\* C9: the channel never buffers more messages than its fixed capacity.
C9_ChannelWithinCapacity ==
    Len(chan) <= ChannelBuffer

\* C10: no handle acquired by get_icon is held once the call has ended, on
\* success and on failure.
C10_NoHandleOutlivesCall ==
    handles = {}

\* C11: the image made from a bitmap has the bitmap's width and height and
\* exactly width * height * 4 bytes of pixels, and every 4-byte pixel of it is
\* the pixel at the same place of the OS buffer with bytes 0 and 2 exchanged
\* and bytes 1 and 3 as they were
C11_PixelsAreSwappedBgra ==
    image.made =>
        /\ image.width = bitmap.width
        /\ image.height = bitmap.height
        /\ Len(image.pixels) = bitmap.width * bitmap.height * 4
        /\ \A k \in 0..(bitmap.width * bitmap.height - 1) :
             /\ image.pixels[4 * k + 1] = bitmap.bits[4 * k + 3]
             /\ image.pixels[4 * k + 2] = bitmap.bits[4 * k + 2]
             /\ image.pixels[4 * k + 3] = bitmap.bits[4 * k + 1]
             /\ image.pixels[4 * k + 4] = bitmap.bits[4 * k + 4]

\* a bitmap of several rows and columns is converted, and some pixel of it has
\* different blue and red bytes
C11_Witness ==
    /\ image.made
    /\ bitmap.width = MaxSide
    /\ bitmap.height = MaxSide
    /\ \E k \in 0..(bitmap.width * bitmap.height - 1) :
         bitmap.bits[4 * k + 1] # bitmap.bits[4 * k + 3]

\* what a view shows in the place of the entry grid: the whole view when it is
\* a single text, the element under the button otherwise
ContentOf(v) == IF v.widget = "Text" THEN v ELSE v.children[2]

\* C12: when the startup move has failed and the application runs, the view
\* shows the move failure in the place of the grid whatever the folder state
\* holds, the empty state included
C12_MoveFailureShown ==
    (process = "running" /\ file_move_error) =>
        ContentOf(view(folder_state, file_move_error)) = MoveFailureText

\* message a stands before message b in the log
Before(log, a, b) ==
    \E i, j \in 1..Len(log) : i < j /\ log[i] = a /\ log[j] = b

\* the script has run: every notification is delivered and every message of
\* it is applied
RaceOver ==
    /\ Quiescent
    /\ notified = Len(RaceScript)
    /\ Len(applied) = Len(published)

\* C13: the creation of a path was notified before its removal; when the
\* consumer has applied the two in the opposite order, the final folder state
\* is not the one that applying the messages in notification order gives
C13_OppositeOrderChangesState ==
    (RaceOver /\ Before(applied, RemoveEntry(RacePath), NewEntry(RacePath))) =>
        /\ Before(published, NewEntry(RacePath), RemoveEntry(RacePath))
        /\ folder_state # ApplyAll(<<>>, published)

\* the removal has overtaken the creation and the removed path is left in the
\* folder state
C13_Witness ==
    /\ RaceOver
    /\ Before(published, NewEntry(RacePath), RemoveEntry(RacePath))
    /\ Before(applied, RemoveEntry(RacePath), NewEntry(RacePath))
    /\ folder_state = <<Item("a.txt"), Item(RacePath)>>
    /\ ApplyAll(<<>>, published) = <<Item("a.txt")>>

\* C14: while the watcher is registered, handle_event can take the next raw
\* notification and return, however full the channel is and whatever the
\* consumer has drained; the call leaves the channel and the parked senders
\* as they are and only adds the detached task with the classified batch
C14_CallbackNeverWaits ==
    /\ []((process = "running" /\ watcher = "watching" /\ notified < MaxBurst)
            => ENABLED HandleEventBurst)
    /\ [][notified' # notified =>
            /\ chan' = chan
            /\ parked_queue' = parked_queue
            /\ tasks' = tasks (+) SetToBag({<<EntryModified>>})]_vars

\* the channel is over its buffer with a sender parked, the consumer has
\* taken nothing, and handle_event has returned from one more notification
C14_Witness ==
    /\ Len(chan) > ChannelBuffer
    /\ parked_queue # <<>>
    /\ applied = <<>>
    /\ BagIn(<<EntryModified>>, tasks)
    /\ notified = MaxBurst

\* C15: the folder state changes only in the initial scan and in a step of
\* update that takes exactly the oldest message from the channel and applies
\* it; a step of handle_event or of a publish task leaves it as it is
C15_SingleWriter ==
    [][/\ folder_state' # folder_state =>
            \/ process = "start"
            \/ /\ chan # <<>>
               /\ chan' = Tail(chan)
               /\ applied' = Append(applied, Head(chan))
               /\ notified' = notified
       /\ (notified' # notified \/ Len(chan') > Len(chan) \/ tasks' # tasks
              \/ watcher' # watcher) =>
            (process = "start" \/ Len(chan') < Len(chan)
               \/ folder_state' = folder_state)]_vars

\* the scan found entries, and update has since applied the two creations of
\* one notification, one after the other
C15_Witness ==
    /\ process = "running"
    /\ scanned > 0
    /\ Len(applied) = 2
    /\ applied[1].type = "NewEntry"
    /\ applied[2].type = "NewEntry"
    /\ Len(folder_state) = Len(listing) + 2

\* the folder state the scan gives when every icon is resolved
ScanState == init_state([i \in 1..Len(listing) |-> 0]).state

\* the entries of the scan that no applied removal names
ScanSurvivors ==
    SelectSeq(ScanState,
              LAMBDA e : ~e.ok \/ RemoveEntry(e.path) \notin Range(applied))

\* the Items of the creations of log that no later removal of log names, in
\* the order of log
RECURSIVE CreatedSurvivors(_)
CreatedSurvivors(log) ==
    IF log = <<>> THEN <<>>
    ELSE (IF Head(log).type = "NewEntry"
             /\ RemoveEntry(Head(log).path) \notin Range(Tail(log))
          THEN <<Item(Head(log).path)>> ELSE <<>>)
         \o CreatedSurvivors(Tail(log))

\* C16: the folder state of the running process is the surviving entries of
\* the scan in listing order, followed by the surviving Items of the applied
\* creations in the order they were drained
C16_ScanThenCreationOrder ==
    process = "running" =>
        folder_state = ScanSurvivors \o CreatedSurvivors(applied)

\* a.txt was listed before sub, removed and created again: it now stands
\* after sub
C16_Witness ==
    /\ process = "running"
    /\ ScanState = <<Item("a.txt"), Item("sub")>>
    /\ applied = <<RemoveEntry("a.txt"), NewEntry("a.txt")>>
    /\ folder_state = <<Item("sub"), Item("a.txt")>>

\* C17: a step of update for FileDropped leaves the folder state, the channel
\* and the parked senders as they are; when it has moved no file into the
\* folder (the rename failed, or there is no folder or no file name) no
\* notification and no publish task results either; and after the scan an
\* entry is only ever added by the step that drains a NewEntry
C17_DropChangesNoState ==
    [][/\ dropped' # dropped =>
            LET drop == dropped'[Len(dropped')] IN
            /\ folder_state' = folder_state
            /\ chan' = chan
            /\ parked_queue' = parked_queue
            /\ process' = process
            /\ (~folder \/ file_name(drop.path) = <<>>) => ~drop.renamed
            /\ ~drop.renamed =>
                 /\ disk' = disk
                 /\ tasks' = tasks
                 /\ published' = published
                 /\ notified' = notified
       /\ (process = "running" /\ Len(folder_state') > Len(folder_state)) =>
            (chan # <<>> /\ Head(chan).type = "NewEntry" /\ chan' = Tail(chan))]_vars

\* a file named a.txt was dropped on a launcher that lists only sub and whose
\* watcher is registered: the rename failed, nothing was notified and a.txt is
\* neither in the folder nor in the folder state
C17_Witness ==
    /\ process = "running"
    /\ watcher = "watching"
    /\ dropped = <<[path |-> "a.txt", renamed |-> FALSE]>>
    /\ last_message = FileDropped("a.txt")
    /\ notified = 0
    /\ "a.txt" \notin disk
    /\ folder_state = <<Item("sub")>>

\* how often message m stands in the sequence seq
Count(m, seq) == Cardinality({i \in DOMAIN seq : seq[i] = m})

\* how many copies of message m are on their way: unsent in a publish task,
\* unsent in a parked one, or in the channel
InFlight(m) ==
    Cardinality({t \in BagToSet(tasks) \X (1..BagCardinality(tasks)) \X (1..MaxPaths) :
                    /\ t[2] <= CopiesIn(t[1], tasks)
                    /\ t[3] <= Len(t[1])
                    /\ t[1][t[3]] = m})
    + Cardinality({q \in (DOMAIN parked_queue) \X (1..MaxPaths) :
                    /\ q[2] <= Len(parked_queue[q[1]])
                    /\ parked_queue[q[1]][q[2]] = m})
    + Count(m, chan)

\* C18: no event is lost or duplicated between classification and
\* application: every message handle_event has made is either still on its
\* way or has been applied by update, as many times as it was made
C18_NoEventLostOrDuplicated ==
    \A m \in Range(published) \cup Range(applied) :
        Count(m, published) = Count(m, applied) + InFlight(m)

\* C19: in every state of a running process the background task has neither
\* returned nor let go of the watcher: once started it keeps the watcher
\* registered when there is a folder, and pends without one
C19_WatcherNeverEnds ==
    process = "running" =>
        \/ watcher = "unstarted"
        \/ folder /\ watcher = "watching"
        \/ ~folder /\ watcher = "pending"

====
